---- MODULE Spec2Model ----
\* The provider adapter of services/gemini.ts as a state machine.
\*
\* JavaScript runs each synchronous stretch of code to completion, so one
\* action is one such stretch: the synchronous body of an exported function up
\* to its first await, a FileReader event handler, the continuation of an
\* await, or the settling of a provider promise.  Calls are numbered in the
\* order they are invoked; several may be in flight at once.
EXTENDS Naturals, Sequences, FiniteSets

\* ---------------------------------------------------------------- bounds

\* How many adapter calls one run of the process makes.
MaxCalls == 2

\* ------------------------------------------------------------ JS values
\* Every JavaScript value is a record with a tag t, so that values of
\* different JavaScript types can be compared.

Undefined == [t |-> "undefined"]
NullV == [t |-> "null"]
Str(s) == [t |-> "string", v |-> s]
\* A string kept as a sequence of tokens, the comma being a token of its own.
Toks(s) == [t |-> "string", toks |-> s]
Err(n) == [t |-> "error", name |-> n]
\* The object `new GoogleGenAI(...)` evaluates to; n tells the instances apart.
Handle(n) == [t |-> "GoogleGenAI", id |-> n]
\* A key that an object literal does not have at all.
Absent == [t |-> "absent"]

\* --------------------------------------------------------------- inputs

Models == {"gemini-2.5-flash", "gemini-3-pro-preview"}

UserTurn == [role |-> "user", parts |-> <<[text |-> "hi"]>>]
\* A turn with no role: a history the provider would reject.
BadTurn == [parts |-> <<[text |-> "hi"]>>]
Histories == {Undefined,
              [t |-> "array", v |-> <<UserTurn>>],
              [t |-> "array", v |-> <<BadTurn>>]}

TextPart == [text |-> "describe"]
DataPart == [inlineData |-> [mimeType |-> "image/png", data |-> "iVBOR"]]
PartsSeqs == {<<>>, <<TextPart, DataPart>>}

Prompts == {"a red bicycle", ""}

\* Blobs: type is the MIME type (the empty string when unspecified), b64 the
\* base64 text FileReader computes for the bytes.
Blobs == {[type |-> <<>>, b64 |-> <<"QUJD">>],
          [type |-> <<"audio/webm;codecs=\"opus", ",", "vorbis\"">>, b64 |-> <<"QUJD">>]}

\* What the provider may answer.
ProviderErrors == {Err("auth"), Err("network")}
Responses == {[t |-> "response", text |-> Undefined],
              [t |-> "response", text |-> Str("")],
              [t |-> "response", text |-> Str("[[NO_SPEECH]]")]}

\* ------------------------------------------------------------- promises

Pending == [state |-> "pending"]
Fulfilled(v) == [state |-> "fulfilled", value |-> v]
Rejected(e) == [state |-> "rejected", value |-> e]
\* resolve/reject act on a pending promise only; a settled one keeps its state.
Settle(p, new) == IF p.state = "pending" THEN new ELSE p

\* ---------------------------------------------------------------- state

VARIABLES
  ai,           \* the module-level `ai`
  constructed,  \* the calls that ran `new GoogleGenAI`, in order
  getAiLog,     \* the calls that called getAi, in order
  calls,        \* the calls invoked so far, each with its position and outcome
  requests,     \* the requests handed to the client handle, in order
  microtasks,   \* calls whose awaited promise settled, continuation not yet run
  consoleErrors,\* the calls that logged through console.error
  uncaught      \* the calls whose reader handler threw

vars == <<ai, constructed, getAiLog, calls, requests, microtasks, consoleErrors, uncaught>>

Init ==
  /\ ai = NullV
  /\ constructed = <<>>
  /\ getAiLog = <<>>
  /\ calls = <<>>
  /\ requests = <<>>
  /\ microtasks = <<>>
  /\ consoleErrors = <<>>
  /\ uncaught = {}


\* ---------------------------------------------------------------- getAi

\* getAi without its guard: every call builds a client.
NeedsInitAlways(a) == TRUE

\* `if (!ai)`
NeedsInit(a) == a = NullV

\* `new GoogleGenAI({ apiKey: process.env.GEMINI_API_KEY })`: a fresh instance,
\* the (n+1)-th the process builds.
NewGoogleGenAI(n) == Handle(n + 1)

\* The value of `ai` once getAi has run its `if`.
AiAfterGetAi(a, n) == IF NeedsInit(a) THEN NewGoogleGenAI(n) ELSE a

\* getAi handing back the value `ai` held when it was entered.
getAiReturnStale(a, n) == a

\* `return ai`
getAiReturn(a, n) == AiAfterGetAi(a, n)

\* getAi called on behalf of call c: its effect on the state.
getAi(c) ==
  /\ ai' = AiAfterGetAi(ai, Len(constructed))
  /\ constructed' = IF NeedsInit(ai) THEN Append(constructed, c) ELSE constructed
  /\ getAiLog' = Append(getAiLog, c)

\* `getAi().models` / `getAi().chats`: a property read, which throws a
\* TypeError when the value read from is null.
HandleAbsent(h) == h = NullV
AbsentError == Err("TypeError: handle is null")

\* ------------------------------------------------------ request payloads

SystemInstruction ==
  "You are k-ite, an advanced AI assistant created by the k-ite team. Your primary directive is to identify solely as k-ite. You must NEVER claim to be Gemini, a Google product, or affiliated with Google in any way.\n\nKey Behaviors:\n1. **Format & Layout**: Use Markdown extensively to create clean, readable layouts. Use Headers (#, ##) for sections, Bold (**) for emphasis, and Tables for structured data.\n2. **Math & Science**: You are an expert in Math. ALWAYS use LaTeX formatting for mathematical equations and symbols. Enclose inline math in single dollar signs ($...$) and block math in double dollar signs ($$...$$).\n   - Example: \"The area is $A = \\pi r^2$\"\n   - Example: \"$$\\int_{0}^{\\infty} x^2 dx$$\"\n3. **Tone**: Maintain a helpful, friendly, and concise tone matching your clean and airy interface.\n4. **Images**: If the user asks to generate an image, use the generate_image tool."

imageGenerationTool ==
  [name |-> "generate_image",
   description |-> "Call this function when the user asks to draw, generate, create, or make an image/picture/photo. Do not use for general questions.",
   parameters |->
     [type |-> "OBJECT",
      properties |->
        [prompt |-> [type |-> "STRING",
                     description |-> "The detailed description of the image to generate."]],
      required |-> <<"prompt">>]]

\* chats.create given `history || []` and no tools when there is no history.
ChatRequestDefaultHistory(model, history) ==
  [model |-> model,
   history |-> IF history = Undefined THEN [t |-> "array", v |-> <<>>] ELSE history,
   config |-> [systemInstruction |-> SystemInstruction,
               tools |-> IF history = Undefined THEN <<>>
                         ELSE <<[functionDeclarations |-> <<imageGenerationTool>>]>>]]

\* The argument of chats.create.
ChatRequest(model, history) ==
  [model |-> model,
   history |-> history,
   config |-> [systemInstruction |-> SystemInstruction,
               tools |-> <<[functionDeclarations |-> <<imageGenerationTool>>]>>]]

\* A request that keeps the text parts only.
IsTextPart(p) == "text" \in DOMAIN p
ContentRequestTextOnly(model, parts) ==
  [model |-> model, contents |-> [parts |-> SelectSeq(parts, IsTextPart)]]

\* The argument of models.generateContent in generateContent.
ContentRequest(model, parts) ==
  [model |-> model, contents |-> [parts |-> parts]]

\* An image request that asks for a response MIME type.
ImageRequestWithConfig(prompt) ==
  [model |-> "gemini-2.5-flash-image",
   contents |-> [parts |-> <<[text |-> prompt]>>],
   config |-> [responseMimeType |-> "image/png"]]

\* The argument of models.generateContent in generateImage.
ImageRequest(prompt) ==
  [model |-> "gemini-2.5-flash-image",
   contents |-> [parts |-> <<[text |-> prompt]>>]]

TranscribeInstruction ==
  "Listen carefully to the audio. Transcribe the human speech to text (Vietnamese preferred). \n\nCRITICAL RULE: If the audio contains NO human speech (e.g., only silence, background noise, static, typing sounds, breathing, or music without lyrics), output EXACTLY the string: [[NO_SPEECH]]\n\nDo not output any other explanation."

\* `audioBlob.type || 'audio/webm'`: the empty string is falsy.
MimeTypeOf(blob) == IF blob.type = <<>> THEN <<"audio/webm">> ELSE blob.type

\* The argument of models.generateContent in transcribeAudio.
TranscribeRequest(blob, base64Data) ==
  [model |-> "gemini-3-flash-preview",
   contents |->
     [parts |-> <<[inlineData |-> [mimeType |-> MimeTypeOf(blob), data |-> base64Data]],
                  [text |-> TranscribeInstruction]>>]]

\* One request handed to handle h by call c.
Request(c, h, api, payload) == [by |-> c, via |-> h, api |-> api, payload |-> payload]

\* --------------------------------------------------------- blobToBase64

\* FileReader.readAsDataURL: "data:" + type + ";base64," + base64 of the bytes.
readAsDataURL(blob) == <<"data:">> \o blob.type \o <<";base64", ",">> \o blob.b64

\* String.prototype.split(sep): the pieces of s between the separators.
RECURSIVE SplitFrom(_, _, _)
SplitFrom(s, sep, cur) ==
  IF s = <<>> THEN <<cur>>
  ELSE IF Head(s) = sep THEN <<cur>> \o SplitFrom(Tail(s), sep, <<>>)
  ELSE SplitFrom(Tail(s), sep, Append(cur, Head(s)))
Split(s, sep) == SplitFrom(s, sep, <<>>)

\* `dataUrl.split(',')[1]`: the second piece, undefined when there is none.
Base64Of(dataUrl) ==
  LET pieces == Split(dataUrl, ",")
  IN IF Len(pieces) >= 2 THEN Toks(pieces[2]) ELSE Undefined

\* ------------------------------------------------- returning and catching

\* `return getAi().chats.create(...)` in a plain function: what the provider
\* call returns is returned, what it throws is thrown.
SyncReturn(outcome) == outcome

\* A wrapper that swallows a rejection and resolves with nothing.
AsyncReturnSwallow(p) == IF p.state = "rejected" THEN Fulfilled(Undefined) ELSE p

\* `return getAi().models.generateContent(...)` in an async function: the
\* function's promise takes the state of the provider's promise.
AsyncReturn(p) == p

\* An encoding step whose failure is not noticed.
EncodeOkAlways(p) == TRUE

\* `await blobToBase64(audioBlob)` inside try: control goes on when the
\* promise is fulfilled, and to the catch block when it is rejected.
EncodeOk(p) == p.state = "fulfilled"

\* `await getAi().models.generateContent(...)` inside try, likewise.
ResponseOk(p) == p.state = "fulfilled"

Falsy(v) == v = Undefined \/ v = NullV \/ v = Str("")
\* A normalisation that also blanks the no-speech marker.
TextOrEmptyDropSentinel(text) ==
  IF text = Undefined \/ text = Str("") \/ text = Str("[[NO_SPEECH]]") THEN Str("") ELSE text

\* `response.text || ""`
TextOrEmpty(text) == IF Falsy(text) THEN Str("") ELSE text

\* `return { text: response.text || "" }`
TranscribeSuccess(response) == Fulfilled([text |-> TextOrEmpty(response.text)])

\* A catch block that logs and throws the error on.
TranscribeCatchRethrow(e) == Rejected(e)

\* The catch block: `return { text: "" }`
TranscribeCatch(e) == Fulfilled([text |-> Str("")])

\* ------------------------------------------------------------ operations

Call(op, arg, pc, reader, enc, prov, ret) ==
  [op |-> op, arg |-> arg, pc |-> pc, reader |-> reader, enc |-> enc,
   prov |-> prov, ret |-> ret]

\* What chats.create may do: hand back a session, or throw.
ChatOutcomes ==
  {[state |-> "returned", value |-> [t |-> "Chat"]]}
    \cup {[state |-> "thrown", value |-> e] : e \in ProviderErrors}

\* How the promise of models.generateContent may settle.
GenerateOutcomes ==
  {Fulfilled(r) : r \in Responses} \cup {Rejected(e) : e \in ProviderErrors}

\* createChatSession(model, history): synchronous from call to return.
createChatSession(model, history) ==
  /\ Len(calls) < MaxCalls
  /\ LET c == Len(calls) + 1
         h == getAiReturn(ai, Len(constructed))
     IN /\ getAi(c)
        /\ IF HandleAbsent(h)
           THEN /\ requests' = requests
                /\ calls' = Append(calls,
                     Call("createChatSession", [model |-> model, history |-> history],
                          "done", "NONE", Absent, Absent,
                          [state |-> "thrown", value |-> AbsentError]))
           ELSE \E o \in ChatOutcomes :
                /\ requests' = Append(requests,
                     Request(c, h, "chats.create", ChatRequest(model, history)))
                /\ calls' = Append(calls,
                     Call("createChatSession", [model |-> model, history |-> history],
                          "done", "NONE", Absent, o, SyncReturn(o)))
  /\ UNCHANGED <<microtasks, consoleErrors, uncaught>>

\* The synchronous part of an async function that is one
\* `return getAi().models.generateContent(payload)`.
StartGenerate(op, arg, payload) ==
  /\ Len(calls) < MaxCalls
  /\ LET c == Len(calls) + 1
         h == getAiReturn(ai, Len(constructed))
     IN /\ getAi(c)
        /\ IF HandleAbsent(h)
           THEN /\ requests' = requests
                /\ calls' = Append(calls,
                     Call(op, arg, "done", "NONE", Absent, Absent, Rejected(AbsentError)))
           ELSE /\ requests' = Append(requests,
                     Request(c, h, "models.generateContent", payload))
                /\ calls' = Append(calls,
                     Call(op, arg, "awaitProvider", "NONE", Absent, Pending, Pending))
  /\ UNCHANGED <<microtasks, consoleErrors, uncaught>>

generateContent(model, parts) ==
  StartGenerate("generateContent", [model |-> model, parts |-> parts],
                ContentRequest(model, parts))

generateImage(prompt) ==
  StartGenerate("generateImage", [prompt |-> prompt], ImageRequest(prompt))

\* The promise blobToBase64 hands back: pending while the reader reads; an
\* exception thrown inside the executor (by `new FileReader()` or by
\* readAsDataURL) rejects it on the spot.
blobToBase64(readerStarts) ==
  IF readerStarts THEN Pending ELSE Rejected(Err("TypeError: reader"))

\* transcribeAudio(audioBlob) up to `await blobToBase64(audioBlob)`: the
\* reader is created and started, and the function is suspended.
transcribeAudio(audioBlob, readerStarts) ==
  /\ Len(calls) < MaxCalls
  /\ LET c == Len(calls) + 1
         p == blobToBase64(readerStarts)
     IN /\ calls' = Append(calls,
             Call("transcribeAudio", [audioBlob |-> audioBlob], "awaitEncode",
                  IF readerStarts THEN "LOADING" ELSE "NONE", p, Absent, Pending))
        /\ microtasks' = IF p.state = "pending" THEN microtasks ELSE Append(microtasks, c)
  /\ UNCHANGED <<ai, constructed, getAiLog, requests, consoleErrors, uncaught>>

\* A promise that call c awaits goes from `was` to `now`: when that settles it,
\* the continuation of the await is queued.
QueueIfSettled(c, was, now) ==
  microtasks' = IF was.state = "pending" /\ now.state # "pending"
                THEN Append(microtasks, c) ELSE microtasks

\* The reader's error event: `reader.onerror = reject`.  A reader event is a
\* task, and a task starts only when no microtask is waiting.
onerror(c) ==
  /\ c \in 1..Len(calls)
  /\ microtasks = <<>>
  /\ calls[c].reader = "LOADING"
  /\ LET now == Settle(calls[c].enc, Rejected([t |-> "ProgressEvent", type |-> "error"]))
     IN /\ calls' = [calls EXCEPT ![c].reader = "FAILED", ![c].enc = now]
        /\ QueueIfSettled(c, calls[c].enc, now)
  /\ UNCHANGED <<ai, constructed, getAiLog, requests, consoleErrors, uncaught>>

\* `reader.result` when loadend fires: the data URL after a read that
\* succeeded, null after one that failed.
ReaderResult(c) ==
  IF calls[c].reader = "LOADING"
  THEN Toks(readAsDataURL(calls[c].arg.audioBlob)) ELSE NullV

\* The reader's loadend event, which follows a successful read and also follows
\* the error event: the onloadend handler.  With a null result `dataUrl.split`
\* throws inside the handler, before `resolve` is reached.
onloadend(c) ==
  /\ c \in 1..Len(calls)
  /\ microtasks = <<>>
  /\ calls[c].reader \in {"LOADING", "FAILED"}
  /\ LET dataUrl == ReaderResult(c)
     IN IF dataUrl = NullV
        THEN /\ calls' = [calls EXCEPT ![c].reader = "DONE"]
             /\ uncaught' = uncaught \cup {c}
             /\ microtasks' = microtasks
        ELSE LET now == Settle(calls[c].enc, Fulfilled(Base64Of(dataUrl.toks)))
             IN /\ calls' = [calls EXCEPT ![c].reader = "DONE", ![c].enc = now]
                /\ QueueIfSettled(c, calls[c].enc, now)
                /\ uncaught' = uncaught
  /\ UNCHANGED <<ai, constructed, getAiLog, requests, consoleErrors>>

\* The catch block of transcribeAudio, entered by call c with error e.
CatchIn(c, e) ==
  /\ consoleErrors' = Append(consoleErrors, [by |-> c, error |-> e])
  /\ calls' = [calls EXCEPT ![c].pc = "done", ![c].ret = TranscribeCatch(e)]

\* transcribeAudio from the end of `await blobToBase64(audioBlob)` to
\* `await getAi().models.generateContent(...)`, or through the catch block.
resumeAfterEncode(c) ==
  /\ microtasks # <<>>
  /\ Head(microtasks) = c
  /\ calls[c].pc = "awaitEncode"
  /\ microtasks' = Tail(microtasks)
  /\ IF EncodeOk(calls[c].enc)
     THEN LET base64Data == calls[c].enc.value
              h == getAiReturn(ai, Len(constructed))
          IN /\ getAi(c)
             /\ IF HandleAbsent(h)
                THEN /\ CatchIn(c, AbsentError)
                     /\ requests' = requests
                ELSE /\ requests' = Append(requests,
                          Request(c, h, "models.generateContent",
                                  TranscribeRequest(calls[c].arg.audioBlob, base64Data)))
                     /\ calls' = [calls EXCEPT ![c].pc = "awaitProvider",
                                               ![c].prov = Pending]
                     /\ consoleErrors' = consoleErrors
     ELSE /\ CatchIn(c, calls[c].enc.value)
          /\ UNCHANGED <<ai, constructed, getAiLog, requests>>
  /\ UNCHANGED uncaught

\* The provider settles the promise of a models.generateContent request.  In
\* generateContent and generateImage that promise is the one returned; in
\* transcribeAudio it is awaited.
providerSettles(c, outcome) ==
  /\ c \in 1..Len(calls)
  /\ calls[c].pc = "awaitProvider"
  /\ calls[c].prov = Pending
  /\ IF calls[c].op = "transcribeAudio"
     THEN /\ calls' = [calls EXCEPT ![c].prov = outcome]
          /\ microtasks' = Append(microtasks, c)
     ELSE /\ calls' = [calls EXCEPT ![c].prov = outcome, ![c].pc = "done",
                                    ![c].ret = AsyncReturn(outcome)]
          /\ microtasks' = microtasks
  /\ UNCHANGED <<ai, constructed, getAiLog, requests, consoleErrors, uncaught>>

\* transcribeAudio from the end of `await ...generateContent(...)` to its return.
resumeAfterProvider(c) ==
  /\ microtasks # <<>>
  /\ Head(microtasks) = c
  /\ calls[c].pc = "awaitProvider"
  /\ microtasks' = Tail(microtasks)
  /\ IF ResponseOk(calls[c].prov)
     THEN /\ calls' = [calls EXCEPT ![c].pc = "done",
                                    ![c].ret = TranscribeSuccess(calls[c].prov.value)]
          /\ consoleErrors' = consoleErrors
     ELSE CatchIn(c, calls[c].prov.value)
  /\ UNCHANGED <<ai, constructed, getAiLog, requests, uncaught>>

Next ==
  \/ \E model \in Models, history \in Histories : createChatSession(model, history)
  \/ \E model \in Models, parts \in PartsSeqs : generateContent(model, parts)
  \/ \E prompt \in Prompts : generateImage(prompt)
  \/ \E audioBlob \in Blobs, readerStarts \in BOOLEAN :
       transcribeAudio(audioBlob, readerStarts)
  \/ \E c \in 1..MaxCalls : onerror(c)
  \/ \E c \in 1..MaxCalls : onloadend(c)
  \/ \E c \in 1..MaxCalls : resumeAfterEncode(c)
  \/ \E c \in 1..MaxCalls, outcome \in GenerateOutcomes : providerSettles(c, outcome)
  \/ \E c \in 1..MaxCalls : resumeAfterProvider(c)

Spec == Init /\ [][Next]_vars

\* ================================================================ claims

CallIds == 1..Len(calls)
Done(c) == calls[c].pc = "done"
RequestsBy(c) == {i \in 1..Len(requests) : requests[i].by = c}
ReachedGetAi(c) == \E i \in 1..Len(getAiLog) : getAiLog[i] = c
Constructed(c) == \E i \in 1..Len(constructed) : constructed[i] = c
IsOp(c, op) == calls[c].op = op
EncodingFailed(c) == IsOp(c, "transcribeAudio") /\ calls[c].enc.state = "rejected"
ProviderFailed(c) ==
  calls[c].prov # Absent /\ calls[c].prov.state \in {"rejected", "thrown"}
ProviderAnswered(c) ==
  calls[c].prov # Absent /\ calls[c].prov.state \in {"fulfilled", "returned"}
EmptyText == [state |-> "fulfilled", value |-> [text |-> [t |-> "string", v |-> ""]]]

\* C1: the promise transcribeAudio returns is never rejected; a call that has
\* ended after its encoding step failed, or after the provider call failed,
\* has resolved with exactly { text: "" }.
C1_TranscribeFailsSilent ==
  \A c \in CallIds :
    IsOp(c, "transcribeAudio") =>
      /\ calls[c].ret.state \in {"pending", "fulfilled"}
      /\ (Done(c) /\ (EncodingFailed(c) \/ ProviderFailed(c))) => calls[c].ret = EmptyText

\* One transcribeAudio call has ended after a reader error, another after a
\* provider failure.
C1_Witness ==
  \E c1, c2 \in CallIds :
    /\ IsOp(c1, "transcribeAudio") /\ Done(c1) /\ EncodingFailed(c1)
    /\ IsOp(c2, "transcribeAudio") /\ Done(c2) /\ ProviderFailed(c2)

\* C2: at most one client handle is ever constructed, by the first call that
\* reaches getAi; from then on `ai` is that instance, and every request goes
\* through it.
C2_SingleHandle ==
  /\ Len(constructed) <= 1
  /\ getAiLog = <<>> => (ai = NullV /\ constructed = <<>>)
  /\ getAiLog # <<>> =>
       (constructed = <<getAiLog[1]>> /\ ai = [t |-> "GoogleGenAI", id |-> 1])
  /\ \A i \in 1..Len(requests) : requests[i].via = [t |-> "GoogleGenAI", id |-> 1]

\* Two calls have gone through getAi and each has issued its request.
C2_Witness == Len(getAiLog) = 2 /\ Len(requests) = 2

\* C10: a transcribeAudio call issues at most one provider request, and only
\* once its encoding step has succeeded, carrying the encoded data; a call
\* whose encoding failed has issued no request and has not reached getAi.
C10_RequestAfterEncoding ==
  \A c \in CallIds :
    IsOp(c, "transcribeAudio") =>
      /\ Cardinality(RequestsBy(c)) <= 1
      /\ \A i \in RequestsBy(c) :
           /\ calls[c].enc.state = "fulfilled"
           /\ requests[i].payload.contents.parts[1].inlineData.data = calls[c].enc.value
      /\ EncodingFailed(c) =>
           (RequestsBy(c) = {} /\ ~ReachedGetAi(c) /\ ~Constructed(c))

\* One transcribeAudio call has ended after a reader error while another has
\* issued its request.
C10_Witness ==
  \E c1, c2 \in CallIds :
    /\ Done(c1) /\ EncodingFailed(c1)
    /\ IsOp(c2, "transcribeAudio") /\ RequestsBy(c2) # {}

\* No call has failed on reading a property of a null handle.
NoAbsenceThrow ==
  /\ \A c \in CallIds :
       calls[c].ret.state # "pending" => calls[c].ret.value # AbsentError
  /\ \A i \in 1..Len(consoleErrors) : consoleErrors[i].error # AbsentError

\* C3 as stated: once two calls of any kind, with any outcome of the encoding
\* step, have completed, the handle is non-null, and no call threw for want of
\* a handle.
C3_AsStated ==
  (\E c1, c2 \in CallIds : c1 # c2 /\ Done(c1) /\ Done(c2)) =>
    (ai # NullV /\ NoAbsenceThrow)

\* C3, amended: every completed call other than a transcribeAudio call whose
\* encoding step failed leaves the handle non-null, and no call throws for
\* want of a handle.
C3_HandlePresent ==
  /\ \A c \in CallIds : (Done(c) /\ ~EncodingFailed(c)) => ai # NullV
  /\ NoAbsenceThrow

\* Two calls that were in flight together (the one invoked second reached
\* getAi first) have both completed.
C3_Witness ==
  /\ Len(calls) = 2 /\ Done(1) /\ Done(2)
  /\ getAiLog = <<2, 1>>

\* A first invocation: a call invoked no later than the call whose getAi ran
\* first, hence while `ai` was still null.
FirstInvocation(c) == getAiLog # <<>> /\ c <= getAiLog[1]

\* C4 as stated: two first invocations that overlap and have both gone
\* through getAi have each constructed a handle.
C4_AsStated ==
  \A c1, c2 \in CallIds :
    (c1 # c2 /\ FirstInvocation(c1) /\ FirstInvocation(c2)
       /\ ReachedGetAi(c1) /\ ReachedGetAi(c2))
      => (Constructed(c1) /\ Constructed(c2))

\* C4, amended: of two overlapping first invocations that have both gone
\* through getAi, at most one constructed a handle, and the only construction
\* is by the call whose getAi ran first; no state has two constructions.
C4_NoInitRace ==
  /\ Len(constructed) < 2
  /\ \A c1, c2 \in CallIds :
       (c1 # c2 /\ FirstInvocation(c1) /\ FirstInvocation(c2)
          /\ ReachedGetAi(c1) /\ ReachedGetAi(c2))
         => (~(Constructed(c1) /\ Constructed(c2)) /\ constructed = <<getAiLog[1]>>)

\* Two transcribeAudio calls were both suspended in their encoding step before
\* either called getAi, and both have since called it.
C4_Witness ==
  /\ Len(calls) = 2
  /\ IsOp(1, "transcribeAudio") /\ IsOp(2, "transcribeAudio")
  /\ getAiLog = <<2, 1>>

\* C5: in createChatSession, generateContent and generateImage a failure of
\* the provider call reaches the caller as it is: the call ends with the very
\* error the provider raised, after one request, with nothing logged.
C5_FailLoud ==
  \A c \in CallIds :
    (~IsOp(c, "transcribeAudio") /\ ProviderFailed(c)) =>
      /\ calls[c].ret.state = calls[c].prov.state
      /\ calls[c].ret.value = calls[c].prov.value
      /\ Cardinality(RequestsBy(c)) = 1
      /\ \A i \in 1..Len(consoleErrors) : consoleErrors[i].by # c

\* A createChatSession call has thrown and a generateContent or generateImage
\* call has been rejected by the provider.
C5_Witness ==
  \E c1, c2 \in CallIds :
    /\ IsOp(c1, "createChatSession") /\ ProviderFailed(c1)
    /\ calls[c2].op \in {"generateContent", "generateImage"} /\ ProviderFailed(c2)

\* C6: a transcribeAudio call whose encoding and provider call both succeeded
\* returns { text: t }: t is the response's text when that is a non-empty
\* string (the marker "[[NO_SPEECH]]" comes back as it is), and "" when the
\* response has no text.
C6_TranscribeText ==
  \A c \in CallIds :
    (IsOp(c, "transcribeAudio") /\ Done(c) /\ ProviderAnswered(c)) =>
      LET text == calls[c].prov.value.text
          ret == calls[c].ret
      IN /\ ret.state = "fulfilled"
         /\ DOMAIN ret.value = {"text"}
         /\ text = [t |-> "string", v |-> "[[NO_SPEECH]]"] =>
              ret.value.text = [t |-> "string", v |-> "[[NO_SPEECH]]"]
         /\ (text.t = "string" /\ text.v # "") => ret.value.text = text
         /\ (text.t = "undefined" \/ text = [t |-> "string", v |-> ""]) =>
              ret.value.text = [t |-> "string", v |-> ""]

\* One transcribeAudio call has returned the marker and another has returned
\* "" for a response without text.
C6_Witness ==
  \E c1, c2 \in CallIds :
    /\ IsOp(c1, "transcribeAudio") /\ Done(c1) /\ ProviderAnswered(c1)
    /\ calls[c1].prov.value.text = Str("[[NO_SPEECH]]")
    /\ IsOp(c2, "transcribeAudio") /\ Done(c2) /\ ProviderAnswered(c2)
    /\ calls[c2].prov.value.text = Undefined

\* C7: every generateImage call issues one request, to models.generateContent,
\* whose model is 'gemini-2.5-flash-image', whose parts are [{ text: prompt }]
\* and which has no other key.
C7_ImageRequestFixed ==
  \A c \in CallIds :
    IsOp(c, "generateImage") =>
      /\ Cardinality(RequestsBy(c)) = 1
      /\ \A i \in RequestsBy(c) :
           /\ requests[i].api = "models.generateContent"
           /\ requests[i].payload =
                [model |-> "gemini-2.5-flash-image",
                 contents |-> [parts |-> <<[text |-> calls[c].arg.prompt]>>]]

\* Two generateImage calls with different prompts have issued their requests.
C7_Witness ==
  \E c1, c2 \in CallIds :
    /\ IsOp(c1, "generateImage") /\ IsOp(c2, "generateImage")
    /\ calls[c1].arg.prompt = "a red bicycle" /\ calls[c2].arg.prompt # "a red bicycle"

\* C8: every createChatSession call issues one chats.create request whatever
\* its model and history; the request carries the fixed system instruction,
\* one tool entry holding the one generate_image declaration with its one
\* required string parameter 'prompt', and the caller's model and history as
\* given.
C8_ChatConfigFixed ==
  \A c \in CallIds :
    IsOp(c, "createChatSession") =>
      /\ Cardinality(RequestsBy(c)) = 1
      /\ \A i \in RequestsBy(c) :
           LET p == requests[i].payload
               tools == p.config.tools
           IN /\ requests[i].api = "chats.create"
              /\ p.model = calls[c].arg.model
              /\ p.history = calls[c].arg.history
              /\ p.config.systemInstruction = SystemInstruction
              /\ Len(tools) = 1
              /\ DOMAIN tools[1] = {"functionDeclarations"}
              /\ Len(tools[1].functionDeclarations) = 1
              /\ LET decl == tools[1].functionDeclarations[1]
                 IN /\ decl.name = "generate_image"
                    /\ DOMAIN decl.parameters.properties = {"prompt"}
                    /\ decl.parameters.properties.prompt.type = "STRING"
                    /\ decl.parameters.required = <<"prompt">>

\* One session was created without a history and another, for another model,
\* with a history the provider would reject.
C8_Witness ==
  \E c1, c2 \in CallIds :
    /\ IsOp(c1, "createChatSession") /\ calls[c1].arg.history = Undefined
    /\ IsOp(c2, "createChatSession") /\ calls[c2].arg.history # Undefined
    /\ calls[c2].arg.history.v = <<BadTurn>>
    /\ calls[c1].arg.model # calls[c2].arg.model

\* C9: every generateContent call issues one request, whose model and parts
\* are the caller's, element for element, and a call the provider answered
\* has resolved with that answer.
C9_ContentVerbatim ==
  \A c \in CallIds :
    IsOp(c, "generateContent") =>
      /\ Cardinality(RequestsBy(c)) = 1
      /\ \A i \in RequestsBy(c) :
           /\ requests[i].api = "models.generateContent"
           /\ DOMAIN requests[i].payload = {"model", "contents"}
           /\ requests[i].payload.model = calls[c].arg.model
           /\ DOMAIN requests[i].payload.contents = {"parts"}
           /\ requests[i].payload.contents.parts = calls[c].arg.parts
      /\ ProviderAnswered(c) => calls[c].ret = calls[c].prov

\* A generateContent call with a text part followed by a data part has been
\* answered by the provider.
C9_Witness ==
  \E c \in CallIds :
    /\ IsOp(c, "generateContent") /\ ProviderAnswered(c)
    /\ Len(calls[c].arg.parts) = 2

====
